---- MODULE Spec2Model ----
(***************************************************************************)
(* whocares: weekly caretaker rotation (src/src/main.rs).                  *)
(*                                                                         *)
(* A date is the number of days since BaseYear-01-01 (a Monday), so that   *)
(* date arithmetic is integer arithmetic and weekday = date % 7 with       *)
(* 0 = Monday.  The calendar operators (year, ISO week) are computed from  *)
(* the Gregorian rules, not assumed.                                       *)
(***************************************************************************)
EXTENDS Integers, Sequences, FiniteSets, TLC

VARIABLES
    pc,               \* position of main: "args","config","idx","weeks","print","done","panicked"
    arg,              \* the command line: "none", "bad" or a number
    file,             \* ./config.json: [status, content]
    build,            \* "debug" or "release" (overflow checks on/off)
    now,              \* the wall clock's local calendar date
    ticks,            \* midnights passed since the process started
    weeks_to_preview, \* main's local
    conf,             \* the loaded Config
    current_date,     \* get_current_caretaker_idx's local (clock read, line 38)
    caretaker_idx,    \* get_next_weeks's local
    week_date,        \* the clock read of get_next_weeks (line 57)
    weeks,            \* the Vec<CareWeek> returned by get_next_weeks
    printed           \* the lines written to stdout

vars == <<pc, arg, file, build, now, ticks, weeks_to_preview, conf,
          current_date, caretaker_idx, week_date, weeks, printed>>

---------------------------------------------------------------------------
(* Bounds *)

MaxTicks == 1         \* midnights that may pass during one run
FirstNow == 350       \* first clock date of the general specification (2024-12-16)
NumNow == 24          \* number of consecutive clock dates tried
MaxStartOffset == 3   \* start dates 0 .. MaxStartOffset days after BaseYear-01-01
MaxCaretakers == 3    \* length of the caretaker list
MaxCount == 3         \* largest explicit week count of the general specification
LongCount == 53       \* a count that spans more than one year of weeks
NumLongNow == 8       \* clock dates tried by the long specification
FirstTestNow == 340   \* first clock date of the test scenario (2024-12-06)
NumTestNow == 120     \* clock dates tried by the test scenario

(* Program constants *)

BaseYear == 2024      \* day 0 is 2024-01-01, the start date of tests::reschedule_works
DefaultWeeks == 4     \* weeks previewed when no argument is given
TestWeeks == 100      \* tests::get_next_weeks_across_years_works

---------------------------------------------------------------------------
(* Calendar (chrono::NaiveDate) *)

IsLeap(y) == (y % 4 = 0 /\ y % 100 # 0) \/ y % 400 = 0

DaysInYear(y) == IF IsLeap(y) THEN 366 ELSE 365

RECURSIVE YearStart(_)
\* date of January 1st of year y
YearStart(y) ==
    IF y = BaseYear THEN 0
    ELSE IF y > BaseYear THEN YearStart(y - 1) + DaysInYear(y - 1)
    ELSE YearStart(y + 1) - DaysInYear(y)

RECURSIVE YearFrom(_, _)
YearFrom(y, d) ==
    IF d < YearStart(y) THEN YearFrom(y - 1, d)
    ELSE IF d >= YearStart(y + 1) THEN YearFrom(y + 1, d)
    ELSE y

\* NaiveDate::year_ce().1 : the calendar year of date d
YearCe(d) == YearFrom(BaseYear, d)

\* weekday of d, 0 = Monday .. 6 = Sunday
WeekdayFromMonday(d) == d % 7

\* number of ISO weeks of year y: 53 when January 1st is a Thursday, or a
\* Wednesday of a leap year
WeeksInYear(y) ==
    LET wd == WeekdayFromMonday(YearStart(y))
    IN  IF wd = 3 \/ (wd = 2 /\ IsLeap(y)) THEN 53 ELSE 52

\* NaiveDate::iso_week().week()
IsoWeek(d) ==
    LET y   == YearCe(d)
        ord == d - YearStart(y) + 1
        wd  == WeekdayFromMonday(d) + 1
        w   == (ord - wd + 10) \div 7
    IN  IF w < 1 THEN WeeksInYear(y - 1)
        ELSE IF w > WeeksInYear(y) THEN 1
        ELSE w

\* a week taken to begin on Sunday
FirstDayOfWeekSunday(d) == d - ((d + 1) % 7)

\* NaiveDate::week(Weekday::Mon).first_day()
FirstDayOfWeek(d) == d - WeekdayFromMonday(d)

---------------------------------------------------------------------------
(* format!("{}-{}", year, week): decimal digits, a dash, decimal digits *)

DigitChar(n) == <<"0", "1", "2", "3", "4", "5", "6", "7", "8", "9">>[n + 1]

RECURSIVE Digits(_)
Digits(n) == IF n < 10 THEN <<DigitChar(n)>>
             ELSE Digits(n \div 10) \o <<DigitChar(n % 10)>>

FormatKey(year, week) == Digits(year) \o <<"-">> \o Digits(week)

\* the reschedule key get_next_weeks looks up for the week starting at d
WeekKey(d) == FormatKey(YearCe(d), IsoWeek(d))

---------------------------------------------------------------------------
(* The rotation engine *)

Config(start, takers, resched) ==
    [startdate |-> start, caretakers |-> takers, reschedule |-> resched]

\* the k-th item (k = 0, 1, ..) of NaiveDate::iter_weeks() started at d
IterWeeks(d, k) == d + 7 * k

RECURSIVE TakeWhileCount(_, _)
\* start.iter_weeks().take_while(|w| w <= &current_date).count()
TakeWhileCount(w, cur) ==
    IF w <= cur THEN 1 + TakeWhileCount(IterWeeks(w, 1), cur) ELSE 0

\* usize::MAX % n for a 64-bit usize, n > 0: (2^64 - 1) mod n, computed
\* from 2^16 mod n so that no intermediate value leaves the integers at hand
UsizeMaxMod(n) ==
    LET p == 65536 % n
        q == (p * p) % n
    IN  (((q * q) % n) + n - 1) % n

\* the index without the "- 1": the start week counted as week one
GetCurrentCaretakerIdxNoMinusOne(c, cur, b) ==
    LET cnt == TakeWhileCount(c.startdate, cur)
        n   == Len(c.caretakers)
    IN  IF n = 0 THEN [panic |-> TRUE, idx |-> 0]
        ELSE [panic |-> FALSE, idx |-> cnt % n]

\* the index with a remainder that yields 0 for an empty list instead of
\* panicking (checked_rem(..).unwrap_or(0))
GetCurrentCaretakerIdxNoZeroCheck(c, cur, b) ==
    LET cnt == TakeWhileCount(c.startdate, cur)
        n   == Len(c.caretakers)
    IN  IF cnt = 0 /\ b = "debug" THEN [panic |-> TRUE, idx |-> 0]
        ELSE IF n = 0 THEN [panic |-> FALSE, idx |-> 0]
        ELSE IF cnt = 0 THEN [panic |-> FALSE, idx |-> UsizeMaxMod(n)]
        ELSE [panic |-> FALSE, idx |-> (cnt - 1) % n]

\* get_current_caretaker_idx: [panic |-> TRUE] or [panic |-> FALSE, idx |-> i].
\* count() - 1 on a zero count overflows usize: a panic with overflow checks
\* (debug), a wrap to usize::MAX without (release).  A remainder by zero
\* always panics.
GetCurrentCaretakerIdx(c, cur, b) ==
    LET cnt == TakeWhileCount(c.startdate, cur)
        n   == Len(c.caretakers)
    IN  IF cnt = 0 /\ b = "debug" THEN [panic |-> TRUE, idx |-> 0]
        ELSE IF n = 0 THEN [panic |-> TRUE, idx |-> 0]
        ELSE IF cnt = 0 THEN [panic |-> FALSE, idx |-> UsizeMaxMod(n)]
        ELSE [panic |-> FALSE, idx |-> (cnt - 1) % n]

\* the body of the closure of get_next_weeks for the pair (d, i)
CareWeek(c, d, i) ==
    LET week_number == IsoWeek(d)
        key         == FormatKey(YearCe(d), week_number)
    IN  [week       |-> week_number,
         caretaker  |-> IF key \in DOMAIN c.reschedule
                        THEN c.reschedule[key]
                        ELSE c.caretakers[(i % Len(c.caretakers)) + 1],
         start_date |-> d,
         end_date   |-> d + 6]

\* the zip over idx..weeks instead of idx..idx + weeks
GetNextWeeksRangeToWeeks(c, idx, today, n) ==
    LET start_of_current_week == FirstDayOfWeek(today)
    IN  [k \in 1..(IF n > idx THEN n - idx ELSE 0) |->
            CareWeek(c, IterWeeks(start_of_current_week, k - 1), idx + k - 1)]

\* a rotation cursor that is advanced only by the weeks that are not
\* rescheduled
GetNextWeeksCursorSkips(c, idx, today, n) ==
    LET start_of_current_week == FirstDayOfWeek(today)
        rescheduled(k) ==
            Cardinality({m \in 1..(k - 1) :
                FormatKey(YearCe(IterWeeks(start_of_current_week, m - 1)),
                          IsoWeek(IterWeeks(start_of_current_week, m - 1)))
                    \in DOMAIN c.reschedule})
    IN  [k \in 1..n |->
            CareWeek(c, IterWeeks(start_of_current_week, k - 1),
                     idx + k - 1 - rescheduled(k))]

\* start_of_current_week.iter_weeks().zip(idx..idx + weeks).map(..).collect()
GetNextWeeks(c, idx, today, n) ==
    LET start_of_current_week == FirstDayOfWeek(today)
    IN  [k \in 1..n |->
            CareWeek(c, IterWeeks(start_of_current_week, k - 1), idx + k - 1)]

\* the line println! writes for one CareWeek
Line(w) == <<w.week, w.start_date, w.end_date, w.caretaker>>

---------------------------------------------------------------------------
(* The process *)

NoConfig == Config(0, <<>>, <<>>)

Running == pc \notin {"done", "panicked"}

\* main, lines 96-105: the optional week count
ParseArgs ==
    /\ pc = "args"
    /\ IF arg.kind = "bad"
       THEN /\ pc' = "panicked"
            /\ UNCHANGED weeks_to_preview
       ELSE /\ pc' = "config"
            /\ weeks_to_preview' = IF arg.kind = "num" THEN arg.n ELSE DefaultWeeks
    /\ UNCHANGED <<arg, file, build, now, ticks, conf, current_date,
                   caretaker_idx, week_date, weeks, printed>>

\* get_config and the match of main, lines 26-34 and 107-117
GetConfig ==
    /\ pc = "config"
    /\ IF file.status = "ok"
       THEN /\ pc' = "idx"
            /\ conf' = file.content
       ELSE /\ pc' = "panicked"
            /\ UNCHANGED conf
    /\ UNCHANGED <<arg, file, build, now, ticks, weeks_to_preview, current_date,
                   caretaker_idx, week_date, weeks, printed>>

\* get_next_weeks, line 55: the first clock read and the rotation index
ComputeIdx ==
    /\ pc = "idx"
    /\ current_date' = now
    /\ LET r == GetCurrentCaretakerIdx(conf, now, build)
       IN  IF r.panic
           THEN /\ pc' = "panicked"
                /\ UNCHANGED caretaker_idx
           ELSE /\ pc' = "weeks"
                /\ caretaker_idx' = r.idx
    /\ UNCHANGED <<arg, file, build, now, ticks, weeks_to_preview, conf,
                   week_date, weeks, printed>>

\* get_next_weeks, lines 56-93: the second clock read and the weeks
CollectWeeks ==
    /\ pc = "weeks"
    /\ week_date' = now
    /\ weeks' = GetNextWeeks(conf, caretaker_idx, now, weeks_to_preview)
    /\ pc' = "print"
    /\ UNCHANGED <<arg, file, build, now, ticks, weeks_to_preview, conf,
                   current_date, caretaker_idx, printed>>

\* main, lines 110-115: one iteration of the loop
PrintWeek ==
    /\ pc = "print"
    /\ Len(printed) < Len(weeks)
    /\ printed' = Append(printed, Line(weeks[Len(printed) + 1]))
    /\ UNCHANGED <<pc, arg, file, build, now, ticks, weeks_to_preview, conf,
                   current_date, caretaker_idx, week_date, weeks>>

\* a loop that may stop before the last week
ExitEarly ==
    /\ pc = "print"
    /\ Len(printed) <= Len(weeks)
    /\ pc' = "done"
    /\ UNCHANGED <<arg, file, build, now, ticks, weeks_to_preview, conf,
                   current_date, caretaker_idx, week_date, weeks, printed>>

\* main returns once the loop is over
Exit ==
    /\ pc = "print"
    /\ Len(printed) = Len(weeks)
    /\ pc' = "done"
    /\ UNCHANGED <<arg, file, build, now, ticks, weeks_to_preview, conf,
                   current_date, caretaker_idx, week_date, weeks, printed>>

\* midnight passes: chrono::Local::now().date_naive() moves to the next day
Tick ==
    /\ Running
    /\ ticks < MaxTicks
    /\ ticks' = ticks + 1
    /\ now' = now + 1
    /\ UNCHANGED <<pc, arg, file, build, weeks_to_preview, conf, current_date,
                   caretaker_idx, week_date, weeks, printed>>

Next == ParseArgs \/ GetConfig \/ ComputeIdx \/ CollectWeeks \/ PrintWeek
        \/ Exit \/ Tick

---------------------------------------------------------------------------
(* Inputs *)

Names == <<"A", "B", "C", "D", "E">>

CaretakerLists == {SubSeq(Names, 1, n) : n \in 0..MaxCaretakers}

NoArg == [kind |-> "none", n |-> 0]
BadArg == [kind |-> "bad", n |-> 0]
NumArg(k) == [kind |-> "num", n |-> k]

Missing == [status |-> "missing", content |-> NoConfig]
Malformed == [status |-> "malformed", content |-> NoConfig]
Ok(c) == [status |-> "ok", content |-> c]

\* a HashMap with the single entry key -> value
Single(key, value) == [k \in {key} |-> value]

\* the map m without the entry of key
Without(m, key) == [k \in DOMAIN m \ {key} |-> m[k]]

NowDates == FirstNow..(FirstNow + NumNow - 1)

\* the Mondays whose weeks the general specification reschedules
RescheduleMondays ==
    {FirstDayOfWeek(FirstNow) + 7 * k : k \in 1..3}

Reschedules ==
    {<<>>}
    \cup {Single(WeekKey(m), v) : m \in RescheduleMondays, v \in {"Z", "A"}}

\* start dates: the first days of the base year (Monday onwards), the Monday
\* of the first clock date and one date after every clock date
StartDates ==
    (0..MaxStartOffset)
    \cup {FirstDayOfWeek(FirstNow), FirstNow + NumNow + MaxTicks + 7}

Configs ==
    {Config(s, t, r) : s \in StartDates, t \in CaretakerLists, r \in Reschedules}

Args == {NoArg, BadArg} \cup {NumArg(k) : k \in 0..MaxCount}

InitWith(nows, args, files) ==
    /\ pc = "args"
    /\ arg \in args
    /\ file \in files
    /\ build \in {"debug", "release"}
    /\ now \in nows
    /\ ticks = 0
    /\ weeks_to_preview = 0
    /\ conf = NoConfig
    /\ current_date = 0
    /\ caretaker_idx = 0
    /\ week_date = 0
    /\ weeks = <<>>
    /\ printed = <<>>

Init == InitWith(NowDates, Args, {Missing, Malformed} \cup {Ok(c) : c \in Configs})

Spec == Init /\ [][Next]_vars

(* The long previews: counts of 0, LongCount and TestWeeks from the first
   days of the base year *)

LongNowDates == 0..(NumLongNow - 1)

LongConfigs ==
    {Config(s, t, r) : s \in {0, 1}, t \in CaretakerLists,
                       r \in {<<>>, Single(FormatKey(BaseYear, 1), "Z")}}

LongArgs == {NoArg, BadArg, NumArg(0), NumArg(LongCount), NumArg(TestWeeks)}

InitLong ==
    InitWith(LongNowDates, LongArgs,
             {Missing, Malformed} \cup {Ok(c) : c \in LongConfigs})

SpecLong == InitLong /\ [][Next]_vars

(* tests::reschedule_works: the config is built from the clock, then
   get_next_weeks(&config, 3) is called *)

TestConfig(today) ==
    LET current_week == IsoWeek(today)
        current_year == YearCe(today)
    IN  Config(YearStart(BaseYear), <<"A", "B", "C">>,
               [k \in {FormatKey(current_year, current_week),
                       FormatKey(current_year, current_week + 1),
                       FormatKey(current_year, current_week + 2)} |->
                   IF k = FormatKey(current_year, current_week) THEN "C"
                   ELSE IF k = FormatKey(current_year, current_week + 1) THEN "B"
                   ELSE "A"])

TestNowDates == FirstTestNow..(FirstTestNow + NumTestNow - 1)

InitTest ==
    /\ pc = "idx"
    /\ arg = NoArg
    /\ now \in TestNowDates
    /\ conf = TestConfig(now)
    /\ file = Ok(conf)
    /\ build \in {"debug", "release"}
    /\ ticks = 0
    /\ weeks_to_preview = 3
    /\ current_date = 0
    /\ caretaker_idx = 0
    /\ week_date = 0
    /\ weeks = <<>>
    /\ printed = <<>>

NextTest == ComputeIdx \/ CollectWeeks \/ Tick

SpecTest == InitTest /\ [][NextTest]_vars

---------------------------------------------------------------------------
(* Properties *)

\* get_next_weeks has returned
Generated == pc \in {"print", "done"}

\* the config is valid for the date the rotation index was computed from
ValidConfig == Len(conf.caretakers) >= 1 /\ conf.startdate <= current_date

\* caretakers[j mod N]
Regular(j) == conf.caretakers[(j % Len(conf.caretakers)) + 1]

\* the number of weeks the run was asked for
Requested == IF arg.kind = "num" THEN arg.n ELSE DefaultWeeks

\* C1: for a valid config and every count k >= 0, get_next_weeks does not
\* fail and returns exactly k entries (k = 0: the empty sequence; k = 100:
\* 100 entries).
C1_ExactlyKEntries ==
    /\ Generated => Len(weeks) = weeks_to_preview /\ weeks_to_preview = Requested
    /\ (pc = "panicked" /\ arg.kind # "bad" /\ file.status = "ok")
          => ~(Len(file.content.caretakers) >= 1
               /\ file.content.startdate <= current_date)

C1_Witness ==
    /\ pc = "done"
    /\ ValidConfig
    /\ caretaker_idx >= 1
    /\ weeks_to_preview = TestWeeks
    /\ Len(weeks) = TestWeeks
    /\ YearCe(weeks[TestWeeks].start_date) > YearCe(weeks[1].start_date)

\* C2: the first entry starts on the Monday of the week containing the date
\* read by get_next_weeks, every later entry starts exactly 7 days after the
\* entry before it, and every entry ends 6 days after it starts.
C2_WeekDates ==
    Generated =>
        /\ Len(weeks) >= 1 =>
              /\ weeks[1].start_date % 7 = 0
              /\ weeks[1].start_date <= week_date
              /\ week_date <= weeks[1].start_date + 6
        /\ \A i \in 1..(Len(weeks) - 1) :
              weeks[i + 1].start_date = weeks[i].start_date + 7
        /\ \A i \in 1..Len(weeks) :
              weeks[i].end_date = weeks[i].start_date + 6

C2_Witness ==
    /\ Generated
    /\ Len(weeks) >= 2
    /\ week_date > weeks[1].start_date
    /\ YearCe(weeks[1].start_date) < YearCe(weeks[2].start_date)

\* C3: with a Monday start date W0, no reschedule entries and the reference
\* date W0 + 7j (the date of both clock reads), the i-th entry (i = 0..k-1)
\* has caretaker caretakers[(j + i) mod N].
C3_Rotation ==
    (/\ Generated
     /\ DOMAIN conf.reschedule = {}
     /\ conf.startdate % 7 = 0
     /\ current_date = week_date
     /\ current_date >= conf.startdate
     /\ (current_date - conf.startdate) % 7 = 0)
    => LET j == (current_date - conf.startdate) \div 7
       IN  \A i \in 0..(Len(weeks) - 1) : weeks[i + 1].caretaker = Regular(j + i)

C3_Witness ==
    /\ pc = "done"
    /\ DOMAIN conf.reschedule = {}
    /\ conf.startdate % 7 = 0
    /\ current_date = week_date
    /\ current_date > conf.startdate
    /\ (current_date - conf.startdate) % 7 = 0
    /\ conf.caretakers = <<"A", "B", "C">>
    /\ Len(weeks) = 3
    /\ <<weeks[1].caretaker, weeks[2].caretaker, weeks[3].caretaker>>
          = <<"B", "C", "A">>

\* the dates of the ISO week that follows the ISO week of d
NextIsoWeekDates(d) == {d - (d % 7) + 7 + k : k \in 0..6}

\* C4: for any start date and any reference date d on or after it, the
\* rotation index at every date of the ISO week following the week of d is
\* (index at d + 1) mod N, and the week containing the start date has index 0.
C4_IndexAdvancesPerIsoWeek ==
    (pc \in {"weeks", "print", "done"} /\ conf.startdate <= current_date)
    => /\ \A d2 \in NextIsoWeekDates(current_date) :
             GetCurrentCaretakerIdx(conf, d2, build).idx
                = (caretaker_idx + 1) % Len(conf.caretakers)
       /\ (current_date - (current_date % 7)
              = conf.startdate - (conf.startdate % 7)) => caretaker_idx = 0

\* the key of the i-th generated week
KeyOf(i) == FormatKey(YearCe(weeks[i].start_date), weeks[i].week)

\* C5: a week whose key is in reschedule has the override as caretaker; every
\* week with another key has the caretaker it has without that entry, which
\* is the regular caretakers[(idx + i) mod N] when it has no entry of its
\* own; the week that follows a week never has that week's key.
C5_OverrideIsLocal ==
    Generated =>
        /\ \A i \in 1..Len(weeks) :
              IF KeyOf(i) \in DOMAIN conf.reschedule
              THEN weeks[i].caretaker = conf.reschedule[KeyOf(i)]
              ELSE weeks[i].caretaker = Regular(caretaker_idx + i - 1)
        /\ \A i \in 1..(Len(weeks) - 1) : KeyOf(i + 1) # KeyOf(i)
        /\ \A key \in DOMAIN conf.reschedule :
              LET removed == GetNextWeeks(
                      Config(conf.startdate, conf.caretakers,
                             Without(conf.reschedule, key)),
                      caretaker_idx, week_date, weeks_to_preview)
              IN  \A i \in 1..Len(weeks) :
                      KeyOf(i) # key => weeks[i].caretaker = removed[i].caretaker

C5_Witness ==
    /\ Generated
    /\ Len(weeks) >= 3
    /\ KeyOf(2) \in DOMAIN conf.reschedule
    /\ weeks[2].caretaker = "Z"
    /\ Regular(caretaker_idx + 1) # weeks[2].caretaker
    /\ weeks[1].caretaker = Regular(caretaker_idx)
    /\ weeks[3].caretaker = Regular(caretaker_idx + 2)
    /\ weeks[3].caretaker # weeks[1].caretaker

\* C6: two distinct generated weeks never resolve to the same reschedule
\* key, so that one reschedule entry overrides at most one CareWeek.
C6_KeysDistinct ==
    Generated =>
        \A key \in DOMAIN conf.reschedule :
            \A i, j \in 1..Len(weeks) :
                (KeyOf(i) = key /\ KeyOf(j) = key) => i = j

\* C7: with the config of tests::reschedule_works built from the current
\* date, get_next_weeks(config, 3) returns 3 entries with caretakers C, B, A.
C7_TestReschedule ==
    Generated =>
        /\ Len(weeks) = 3
        /\ <<weeks[1].caretaker, weeks[2].caretaker, weeks[3].caretaker>>
              = <<"C", "B", "A">>

\* C8: the lines printed are always the lines of the first generated weeks
\* in order; a run that ends normally has printed one line per requested
\* week, a run that panics has printed nothing, and a run with a bad
\* argument, a missing or malformed config or no caretakers never prints.
C8_NoPartialOutput ==
    /\ Len(printed) <= Len(weeks)
    /\ \A i \in 1..Len(printed) : printed[i] = Line(weeks[i])
    /\ pc = "done" => Len(printed) = Requested /\ Len(weeks) = Requested
    /\ pc = "panicked" => printed = <<>>
    /\ (\/ arg.kind = "bad"
        \/ file.status # "ok"
        \/ Len(file.content.caretakers) = 0) => printed = <<>> /\ pc # "done"

C8_Witness ==
    /\ pc = "panicked"
    /\ arg.kind = "num"
    /\ arg.n >= 1
    /\ file.status = "ok"
    /\ conf = file.content
    /\ Len(conf.caretakers) = 0
    /\ printed = <<>>

\* C9: with an empty caretaker list the run panics in the rotation-index
\* computation, for every reference date and count: it never gets past that
\* computation, and no CareWeek is produced or printed.
C9_EmptyCaretakersFailFast ==
    (file.status = "ok" /\ Len(file.content.caretakers) = 0)
    => /\ pc \in {"args", "config", "idx", "panicked"}
       /\ weeks = <<>>
       /\ printed = <<>>

C9_Witness ==
    /\ pc = "panicked"
    /\ arg = NumArg(0)
    /\ file.status = "ok"
    /\ conf = file.content
    /\ Len(conf.caretakers) = 0
    /\ conf.startdate <= current_date
    /\ current_date >= FirstNow
    /\ weeks = <<>>

\* C10: the first entry's caretaker is the one the rotation assigns to the
\* first entry's week, also when the date advances during the call (Monday
\* start date, no reschedule entry for that week).
C10_FirstCaretakerMatchesFirstWeek ==
    (/\ Generated
     /\ Len(weeks) >= 1
     /\ conf.startdate % 7 = 0
     /\ conf.startdate <= current_date
     /\ KeyOf(1) \notin DOMAIN conf.reschedule)
    => weeks[1].caretaker
          = Regular((weeks[1].start_date - conf.startdate) \div 7)

====
